---- MODULE Spec2Model ----
(***************************************************************************)
(* Model of the telemetry polling-table packers of device_startup:         *)
(* IwcConfiguration and TscConfiguration (functions.py), their lazily      *)
(* derived and memoised modbus_package, and the caller that builds them    *)
(* from a module-level list of (code, register_count) tuples (main.py).    *)
(*                                                                         *)
(* Python lists are modelled as sequences: Python index i is element i+1.  *)
(***************************************************************************)
EXTENDS Integers, Sequences, FiniteSets, TLC

\* ------------------------------------------------------------------------
\* Program constants (functions.py:11-14)
\* ------------------------------------------------------------------------
MAX_TSC_PACKAGES == 24
MAX_IWC_PACKAGES == 10
MAX_TSC_REGISTERS == 39
MAX_IWC_REGISTERS == 30

\* ------------------------------------------------------------------------
\* Bounds of the model
\* ------------------------------------------------------------------------
\* how many entries beyond the largest max_entries a caller list may have
MaxExtra == 1
\* how many times modbus_package is read on one instance
MaxReads == 2
\* how many instances the caller builds from its list, one after another
MaxInstances == 2

\* ------------------------------------------------------------------------
\* Device classes and their limits
\* ------------------------------------------------------------------------
Classes == {"TSC", "IWC"}

MaxPackages(c) == IF c = "TSC" THEN MAX_TSC_PACKAGES ELSE MAX_IWC_PACKAGES

MaxRegisters(c) == IF c = "TSC" THEN MAX_TSC_REGISTERS ELSE MAX_IWC_REGISTERS

\* len(conf) > MAX_*_PACKAGES, the test of __init__
TooManyPackagesGe(c, n) == n >= MaxPackages(c)
TooManyPackages(c, n) == n > MaxPackages(c)

\* registers_amount > MAX_*_REGISTERS, the test inside the loop
BudgetExceededGe(c, amount) == amount >= MaxRegisters(c)
BudgetExceeded(c, amount) == amount > MaxRegisters(c)

\* int(MAX_*_PACKAGES * 1.5): 36 and 15
BufferLenDouble(c) == MaxPackages(c) * 2
BufferLen(c) == (MaxPackages(c) * 3) \div 2

\* [0] * int(MAX_*_PACKAGES * 1.5)
ZeroRegisters(c) == [k \in 1..BufferLen(c) |-> 0]

\* Python index of the bank-B word entry `index` is added to:
\* trunc(index / 4) + MAX_IWC_PACKAGES, int(index / 2) + MAX_TSC_PACKAGES
BankBIndexNoBase(c, index) ==
    IF c = "TSC" THEN index \div 2 ELSE index \div 4
BankBIndex(c, index) ==
    IF c = "TSC" THEN (index \div 2) + MAX_TSC_PACKAGES
                 ELSE (index \div 4) + MAX_IWC_PACKAGES

\* factor applied to package[1]: pow(16, index % 4) for IWC;
\* 1 for even and 256 for odd indices for TSC
IwcScaleLinear(index) == 16 * (index % 4)
IwcScale(index) == 16 ^ (index % 4)

TscScaleSwapped(index) == IF index % 2 = 0 THEN 256 ELSE 1
TscScale(index) == IF index % 2 = 0 THEN 1 ELSE 256

Scale(c, index) == IF c = "TSC" THEN TscScale(index) ELSE IwcScale(index)

\* one pass of the loop body over the local buffer:
\*   regs[index] (+)= package[0]
\*   regs[BankBIndex] += package[1] * Scale
\* (IWC adds the code to a word that is still 0, TSC assigns it)
LoopBody(c, regs, index, package) ==
    LET withCode == [regs EXCEPT ![index + 1] =
                        IF c = "TSC" THEN package[1] ELSE @ + package[1]]
    IN  [withCode EXCEPT ![BankBIndex(c, index) + 1] =
                        @ + package[2] * Scale(c, index)]

\* the loop body indexes the buffer outside its length (IndexError): only
\* when the list has grown beyond max_entries since __init__ checked it
OutOfBuffer(c, index) ==
    index >= BufferLen(c) \/ BankBIndex(c, index) >= BufferLen(c)

\* functools.cached_property: what the instance's cache slot holds after the
\* wrapped function raised (nothing is stored) ...
NoCache == [set |-> FALSE, val |-> <<>>]
CacheOnRaiseStoresBuffer(old, regs) == [set |-> TRUE, val |-> regs]
CacheOnRaise(old, regs) == old
\* ... and after it returned (the returned list is stored)
CacheOnReturn(regs) == [set |-> TRUE, val |-> regs]

NoResult == [kind |-> "none", val |-> <<>>, total |-> 0]

\* ------------------------------------------------------------------------
\* Caller lists the model explores
\* ------------------------------------------------------------------------
\* the lists of main.py
tsc_polling_packages ==
    << <<30000, 4>>, <<42000, 1>>, <<30006, 1>>, <<30084, 1>>, <<40000, 1>>,
       <<30011, 2>>, <<30088, 10>>, <<30115, 10>>, <<30041, 2>>, <<30046, 3>>,
       <<41004, 1>>, <<30064, 1>> >>

iwc_polling_packages ==
    << <<30000, 14>>, <<40001, 6>>, <<41008, 1>>, <<41213, 1>>, <<41221, 1>>,
       <<50026, 2>> >>

\* the two worked examples of the specification
IwcExample ==
    << <<30000, 4>>, <<40001, 6>>, <<41008, 1>>, <<41213, 1>>, <<41221, 1>>,
       <<50026, 2>> >>

TscExample == << <<30000, 4>>, <<42000, 1>> >>

MaxLen == MAX_TSC_PACKAGES + MaxExtra

\* register_count values: around the nibble limit (15, 16), reaching a budget
\* exactly with ones before it (16 and 21), and at or over a budget alone
Counts == {1, 15, 16, 21, 30, 31, 40}

\* codes counted up from 0 or down from 65535
CodeBases == {0, 65535}

Code(cb, i) == IF cb = 0 THEN i - 1 ELSE cb - (i - 1)

\* where the one entry with a register_count other than 1 sits
Positions(n) == {1, 4, n} \cap (1..n)

Gen(n, p, k, cb) == [i \in 1..n |-> <<Code(cb, i), IF i = p THEN k ELSE 1>>]

ConfInputs ==
    {<<>>, tsc_polling_packages, iwc_polling_packages, IwcExample, TscExample}
    \cup UNION { { Gen(n, p, k, cb) : p \in Positions(n), k \in Counts,
                                      cb \in CodeBases } : n \in 1..MaxLen }

\* ------------------------------------------------------------------------
\* State
\* ------------------------------------------------------------------------
VARIABLES
    conf,               \* the caller's list object
    cls,                \* class of the current instance
    pc,                 \* "start", "rejected", "constructed", "deriving"
    index,              \* loop variable of modbus_package
    registers,          \* local buffer of modbus_package
    registers_amount,   \* local running total of modbus_package
    cache,              \* the instance's cached_property slot
    result,             \* outcome of the last finished read of modbus_package
    reads,              \* finished reads on the current instance
    inst,               \* number of the current instance
    prior,              \* values earlier instances returned: {[cls, val]}
    orig,               \* the caller's list as it was when it was first built
    th,                 \* per thread: position, locals and outcome of a read
    enc,                \* a field encoder instance and its reads
    op,                 \* the run of the device-operation layer
    sens                \* register 41008 of a device and a call of iwc_set_sensors

\* the state of the parts of the program that a specification leaves aside
others == <<orig, th, enc, op, sens>>

vars == <<conf, cls, pc, index, registers, registers_amount, cache, result,
          reads, inst, prior, orig, th, enc, op, sens>>

NoThreads == <<>>
NoEncoder == [pc |-> "none"]
NoRun == [pc |-> "none"]
NoSensors == [pc |-> "none"]

\* self.conf_definition = conf binds the attribute to the caller's list
\* object itself
conf_definition == conf

Init ==
    /\ conf \in ConfInputs
    /\ cls = "TSC"
    /\ pc = "start"
    /\ index = 0
    /\ registers = <<>>
    /\ registers_amount = 0
    /\ cache = NoCache
    /\ result = NoResult
    /\ reads = 0
    /\ inst = 1
    /\ prior = {}
    /\ orig = conf
    /\ th = NoThreads
    /\ enc = NoEncoder
    /\ op = NoRun
    /\ sens = NoSensors

\* IwcConfiguration.__init__ / TscConfiguration.__init__
Construct(c) ==
    /\ pc = "start"
    /\ cls' = c
    /\ pc' = IF TooManyPackages(c, Len(conf_definition))
                THEN "rejected" ELSE "constructed"
    /\ UNCHANGED <<conf, index, registers, registers_amount, cache, result,
                   reads, inst, prior>>
    /\ UNCHANGED others

\* a read of modbus_package that finds the cached_property slot filled
ReadCached ==
    /\ pc = "constructed"
    /\ reads < MaxReads
    /\ cache.set
    /\ result' = [kind |-> "value", val |-> cache.val, total |-> 0]
    /\ reads' = reads + 1
    /\ UNCHANGED <<conf, cls, pc, index, registers, registers_amount, cache,
                   inst, prior>>
    /\ UNCHANGED others

\* a read of modbus_package that finds the slot empty: the function body
\* starts with a fresh buffer and a zero total
DeriveBegin ==
    /\ pc = "constructed"
    /\ reads < MaxReads
    /\ ~cache.set
    /\ pc' = "deriving"
    /\ registers' = ZeroRegisters(cls)
    /\ registers_amount' = 0
    /\ index' = 0
    /\ UNCHANGED <<conf, cls, cache, result, reads, inst, prior>>
    /\ UNCHANGED others

\* one iteration of `for index, package in enumerate(self.conf_definition)`
DeriveStep ==
    /\ pc = "deriving"
    /\ index < Len(conf_definition)
    /\ LET package == conf_definition[index + 1]
           amount  == registers_amount + package[2]
       IN  IF OutOfBuffer(cls, index)
           THEN \* IndexError: list index out of range
                /\ pc' = "constructed"
                /\ result' = [kind |-> "index_error", val |-> <<>>, total |-> 0]
                /\ reads' = reads + 1
                /\ registers' = <<>>
                /\ registers_amount' = 0
                /\ index' = 0
                /\ UNCHANGED cache
           ELSE IF BudgetExceeded(cls, amount)
           THEN \* raise ValueError(f"Too many ... registers: {amount}")
                /\ pc' = "constructed"
                /\ result' = [kind |-> "error", val |-> <<>>, total |-> amount]
                /\ cache' = CacheOnRaise(cache, LoopBody(cls, registers, index, package))
                /\ reads' = reads + 1
                /\ registers' = <<>>
                /\ registers_amount' = 0
                /\ index' = 0
           ELSE /\ registers' = LoopBody(cls, registers, index, package)
                /\ registers_amount' = amount
                /\ index' = index + 1
                /\ UNCHANGED <<pc, result, cache, reads>>
    /\ UNCHANGED <<conf, cls, inst, prior>>
    /\ UNCHANGED others

\* the loop is exhausted: return the buffer, which cached_property stores
DeriveReturn ==
    /\ pc = "deriving"
    /\ index = Len(conf_definition)
    /\ pc' = "constructed"
    /\ result' = [kind |-> "value", val |-> registers, total |-> 0]
    /\ cache' = CacheOnReturn(registers)
    /\ reads' = reads + 1
    /\ registers' = <<>>
    /\ registers_amount' = 0
    /\ index' = 0
    /\ UNCHANGED <<conf, cls, inst, prior>>
    /\ UNCHANGED others

\* the caller drops the instance and builds the next one from the same list
NewInstance ==
    /\ pc \in {"rejected", "constructed"}
    /\ inst < MaxInstances
    /\ inst' = inst + 1
    /\ prior' = IF result.kind = "value"
                   THEN prior \cup {[cls |-> cls, val |-> result.val]}
                   ELSE prior
    /\ pc' = "start"
    /\ cache' = NoCache
    /\ result' = NoResult
    /\ reads' = 0
    /\ UNCHANGED <<conf, cls, index, registers, registers_amount>>
    /\ UNCHANGED others

Next ==
    \/ \E c \in Classes : Construct(c)
    \/ ReadCached
    \/ DeriveBegin
    \/ DeriveStep
    \/ DeriveReturn
    \/ NewInstance

Spec == Init /\ [][Next]_vars

TypeOK ==
    /\ conf \in ConfInputs
    /\ cls \in Classes
    /\ pc \in {"start", "rejected", "constructed", "deriving"}
    /\ index \in 0..MaxLen
    /\ registers_amount \in Nat
    /\ cache.set \in BOOLEAN
    /\ result.kind \in {"none", "value", "error"}
    /\ reads \in 0..MaxReads
    /\ inst \in 1..MaxInstances

\* ------------------------------------------------------------------------
\* Vocabulary of the properties
\* ------------------------------------------------------------------------
RECURSIVE SumOver(_, _)
\* the sum of f[i] over the finite set S of integers
SumOver(S, f) ==
    IF S = {} THEN 0
    ELSE LET i == CHOOSE j \in S : \A k \in S : j <= k
         IN  f[i] + SumOver(S \ {i}, f)

\* the limits as the documentation states them
EntryLimit(c) == IF c = "TSC" THEN 24 ELSE 10
Budget(c) == IF c = "TSC" THEN 39 ELSE 30

\* Python indices of the entries of list s
Indices(s) == 0..(Len(s) - 1)

\* register_count of the entry at Python index i, 0 when there is none
CountAt(s, i) == IF i \in Indices(s) THEN s[i + 1][2] ELSE 0

\* cumulative register_count of the first n entries
PrefixSum(s, n) == SumOver(0..(n - 1), [i \in 0..(n - 1) |-> s[i + 1][2]])

\* the prefix lengths at which the running sum is strictly over the budget
OverPrefixes(c, s) == {n \in 1..Len(s) : PrefixSum(s, n) > Budget(c)}

FirstOver(c, s) ==
    CHOOSE n \in OverPrefixes(c, s) : \A m \in OverPrefixes(c, s) : n <= m

\* an instance exists (its constructor returned)
Exists == pc \in {"constructed", "deriving"}

\* the last finished read of modbus_package returned a list
Returned == result.kind = "value"

\* bank A of regs after the first n entries were placed
BankAHolds(c, regs, n) ==
    \A i \in 0..(EntryLimit(c) - 1) :
        regs[i + 1] = IF i < n THEN conf[i + 1][1] ELSE 0

\* ------------------------------------------------------------------------
\* C1: every RegisterList a packer returns has length floor(max_entries*1.5)
\* (36 for TSC, 15 for IWC) whatever the number of entries, and an instance
\* built from the same list as an earlier instance of the same class returns
\* the same RegisterList.
\* ------------------------------------------------------------------------
C1_LengthAndDeterminism ==
    Returned =>
        /\ Len(result.val) = (IF cls = "TSC" THEN 36 ELSE 15)
        /\ \A p \in prior : p.cls = cls => p.val = result.val

C1_Witness ==
    /\ Returned
    /\ inst = 2
    /\ Len(conf) = EntryLimit(cls)
    /\ \E p \in prior : p.cls = cls

\* ------------------------------------------------------------------------
\* C2: word i of the output is the code of entry i for i < n and words
\* n .. max_entries-1 are 0; while the loop runs, the entries placed so far
\* keep their code and the rest of bank A stays 0, so no bank-B addition
\* changes a bank-A word.
\* ------------------------------------------------------------------------
C2_BankA ==
    /\ pc = "deriving" => BankAHolds(cls, registers, index)
    /\ Returned => BankAHolds(cls, result.val, Len(conf))

C2_Witness ==
    /\ Returned
    /\ cls = "TSC"
    /\ conf = tsc_polling_packages

\* ------------------------------------------------------------------------
\* C3: for IWC, bank-B word w (output index 10+w) is the sum over the entry
\* indices i with floor(i/4) = w of register_count_i * 16^(i mod 4), 0 when
\* no index maps to w; the documented example gives bank A
\* [30000,40001,41008,41213,41221,50026,0,0,0,0] and bank-B word0 4452.
\* ------------------------------------------------------------------------
IwcBankB(s, w) ==
    LET I == {i \in Indices(s) : i \div 4 = w}
    IN  SumOver(I, [i \in I |-> s[i + 1][2] * 16 ^ (i % 4)])

C3_IwcBankB ==
    (Returned /\ cls = "IWC") =>
        /\ \A w \in 0..4 : result.val[10 + w + 1] = IwcBankB(conf, w)
        /\ conf = IwcExample =>
              /\ SubSeq(result.val, 1, 10) =
                    <<30000, 40001, 41008, 41213, 41221, 50026, 0, 0, 0, 0>>
              /\ result.val[11] = 4452

C3_Witness ==
    /\ Returned
    /\ cls = "IWC"
    /\ conf = IwcExample

\* ------------------------------------------------------------------------
\* C4: for TSC, bank-B word w (output index 24+w) is register_count of entry
\* 2w (0 if absent) plus 256 times register_count of entry 2w+1 (0 if
\* absent); for [(30000,4),(42000,1)] bank-B word0 is 260.
\* ------------------------------------------------------------------------
C4_TscBankB ==
    (Returned /\ cls = "TSC") =>
        /\ \A w \in 0..11 :
              result.val[24 + w + 1] =
                  CountAt(conf, 2 * w) + 256 * CountAt(conf, 2 * w + 1)
        /\ conf = TscExample => result.val[25] = 260

C4_Witness ==
    /\ Returned
    /\ cls = "TSC"
    /\ conf = TscExample

\* ------------------------------------------------------------------------
\* C5: in every returned list each entry's register_count can be read back
\* from its own field of bank B: nibble (i mod 4) of word floor(i/4) for
\* IWC, byte (i mod 2) of word floor(i/2) for TSC.
\* ------------------------------------------------------------------------
FieldOf(c, regs, i) ==
    IF c = "TSC" THEN (regs[24 + (i \div 2) + 1] \div (256 ^ (i % 2))) % 256
                 ELSE (regs[10 + (i \div 4) + 1] \div (16 ^ (i % 4))) % 16

C5_CountsReadBack ==
    Returned =>
        \A i \in Indices(conf) : FieldOf(cls, result.val, i) = CountAt(conf, i)

\* ------------------------------------------------------------------------
\* C6: every element of every returned RegisterList is in [0, 65535].
\* ------------------------------------------------------------------------
C6_WordsAreU16 ==
    Returned => \A k \in 1..Len(result.val) : result.val[k] \in 0..65535

\* ------------------------------------------------------------------------
\* C7: construction with more than max_entries entries (24 TSC, 10 IWC)
\* fails, and then nothing was read, returned or stored; construction with
\* at most max_entries entries, exactly max_entries included, succeeds.
\* ------------------------------------------------------------------------
C7_EntryLimitAtConstruction ==
    /\ pc = "rejected" =>
          /\ Len(conf) > EntryLimit(cls)
          /\ result = NoResult
          /\ ~cache.set
          /\ reads = 0
    /\ Exists => Len(conf) <= EntryLimit(cls)

C7_Witness ==
    /\ pc = "rejected"
    /\ Len(conf) = EntryLimit(cls) + 1

C7_WitnessExact ==
    /\ Exists
    /\ Len(conf) = EntryLimit(cls)

\* ------------------------------------------------------------------------
\* C8: once a read has finished, it failed exactly when the running
\* register_count sum strictly exceeds the budget (39 TSC, 30 IWC) at some
\* prefix; the failure reports the sum of the shortest such prefix whatever
\* follows it, and nothing is stored; a list that only reaches the budget
\* is packed.
\* ------------------------------------------------------------------------
C8_BudgetAtEarliestPrefix ==
    reads > 0 =>
        IF OverPrefixes(cls, conf) = {}
        THEN Returned
        ELSE /\ result.kind = "error"
             /\ result.total = PrefixSum(conf, FirstOver(cls, conf))
             /\ ~cache.set

C8_Witness ==
    /\ result.kind = "error"
    /\ OverPrefixes(cls, conf) # {}
    /\ FirstOver(cls, conf) > 1
    /\ FirstOver(cls, conf) < Len(conf)

C8_WitnessExact ==
    /\ Returned
    /\ PrefixSum(conf, Len(conf)) = Budget(cls)

\* ------------------------------------------------------------------------
\* C9: the register budget is checked when the object is constructed, so no
\* packer instance with over-budget entries ever exists.
\* ------------------------------------------------------------------------
C9_BudgetAtConstruction ==
    Exists => OverPrefixes(cls, conf) = {}

\* ------------------------------------------------------------------------
\* C10: a read that failed on the budget returned no list and left nothing
\* stored on the instance, and the next read on that instance fails again
\* instead of returning a value.
\* ------------------------------------------------------------------------
C10_NothingObservableAfterFailure ==
    /\ [](result.kind = "error" => (result.val = <<>> /\ ~cache.set))
    /\ [][(result.kind = "error" /\ inst' = inst) =>
             (result'.kind = "error" /\ ~cache'.set)]_vars

C10_Witness ==
    /\ result.kind = "error"
    /\ reads = 2

\* ========================================================================
\* Field encoders: the signed 16-bit codec, the PAN identifier and the
\* software movement limits (functions.py:94-115, 143-259), read through
\* modbus_package by the operation functions
\* ========================================================================

\* how far beyond the signed 16-bit range the integer inputs go
MaxBeyond == 2

\* format "h" of struct: a signed 16-bit integer
I16_MIN == -32768
I16_MAX == 32767

NoBytes == [ok |-> FALSE, bytes |-> <<>>]

\* struct.pack("<h", v): struct.error outside the range of "h", otherwise
\* the two's-complement pattern of v as two bytes, low byte first
Pack_h_NoRangeCheck(v) ==
    [ok |-> TRUE, bytes |-> <<(v % 65536) % 256, ((v % 65536) \div 256) % 256>>]
Pack_h(v) ==
    IF v \in I16_MIN..I16_MAX
    THEN [ok |-> TRUE, bytes |-> <<(v % 65536) % 256, (v % 65536) \div 256>>]
    ELSE NoBytes

\* struct.unpack("<H", b)[0]: two bytes, low byte first, as an unsigned word
Unpack_H(b) == b[1] + 256 * b[2]

\* characters bytes.fromhex reads as hexadecimal digits, in order of value
HexLower == <<"0", "1", "2", "3", "4", "5", "6", "7", "8", "9",
              "a", "b", "c", "d", "e", "f">>
HexUpper == <<"0", "1", "2", "3", "4", "5", "6", "7", "8", "9",
              "A", "B", "C", "D", "E", "F">>

HexDigits == {HexLower[i] : i \in 1..16} \cup {HexUpper[i] : i \in 1..16}

HexVal(ch) ==
    IF \E i \in 1..16 : HexLower[i] = ch
    THEN (CHOOSE i \in 1..16 : HexLower[i] = ch) - 1
    ELSE (CHOOSE i \in 1..16 : HexUpper[i] = ch) - 1

\* bytes.fromhex(str): one byte per pair of digits, first digit high;
\* ValueError on an odd number of digits or a character that is no digit
FromHex(str) ==
    IF Len(str) % 2 = 0 /\ \A i \in 1..Len(str) : str[i] \in HexDigits
    THEN [ok |-> TRUE,
          bytes |-> [k \in 1..(Len(str) \div 2) |->
                        16 * HexVal(str[2 * k - 1]) + HexVal(str[2 * k])]]
    ELSE NoBytes

\* struct.unpack(">4H", b): struct.error unless b has 8 bytes, otherwise
\* four words, high byte first
Unpack_4H(b) ==
    IF Len(b) = 8
    THEN [ok |-> TRUE, words |-> [k \in 1..4 |-> 256 * b[2 * k - 1] + b[2 * k]]]
    ELSE [ok |-> FALSE, words |-> <<>>]

\* pan_regs[::-1]
Reversed(s) == [k \in 1..Len(s) |-> s[Len(s) + 1 - k]]

\* 34.70909090909091 pulses per degree is 1909 / 55 to the sixteen digits
\* written in the source
PULSES_NUM == 1909
PULSES_DEN == 55

\* int(x) for x = num / den with den > 0: truncation toward zero
TruncDiv(num, den) ==
    IF num >= 0 THEN num \div den ELSE -((-num) \div den)

\* int(degrees * 34.70909090909091)
Pulses(degrees) == TruncDiv(degrees * PULSES_NUM, PULSES_DEN)

\* the encoder classes modelled here
I16Kinds1 == {"IwcAvgTime", "IwcRelaxTime"}
SnowKinds == {"IwcSnowActivationTime", "IwcSnowDeactivationTime",
              "IwcSnowSampleTime", "IwcSnowMaxVariation"}
I16Kinds2 == {"TscBacktracking", "IwcWindAlarmTime"}
PanKinds == {"TscPanID", "IwcPanID"}
LimitKinds == {"TscSwMovementLimit"}

EncKinds == I16Kinds1 \cup SnowKinds \cup I16Kinds2 \cup PanKinds \cup LimitKinds

\* modbus_package is decorated with @cached_property in every class but
\* TscBacktracking, where it is a plain method that the caller calls
IsCachedProperty(kind) == kind # "TscBacktracking"

\* what modbus_package returns: a list, or for the Snow* classes the bare
\* word struct.unpack(...)[0]
ShapeOf(kind) == IF kind \in SnowKinds THEN "int" ELSE "list"

EncFailure == [ok |-> FALSE, words |-> <<>>]

\* the words of struct.unpack("<H", struct.pack("<h", v))[0] for each v of
\* vs in turn; the first v that does not pack raises
EncodeI16s(vs) ==
    IF \A i \in 1..Len(vs) : Pack_h(vs[i]).ok
    THEN [ok |-> TRUE,
          words |-> [i \in 1..Len(vs) |-> Unpack_H(Pack_h(vs[i]).bytes)]]
    ELSE EncFailure

\* struct.unpack(">4H", bytes.fromhex(self.pan_id)) reversed
EncodePanNotReversed(str) ==
    IF FromHex(str).ok /\ Unpack_4H(FromHex(str).bytes).ok
    THEN [ok |-> TRUE, words |-> Unpack_4H(FromHex(str).bytes).words]
    ELSE EncFailure
EncodePan(str) ==
    IF FromHex(str).ok /\ Unpack_4H(FromHex(str).bytes).ok
    THEN [ok |-> TRUE, words |-> Reversed(Unpack_4H(FromHex(str).bytes).words)]
    ELSE EncFailure

\* the body of modbus_package of class kind on the constructor arguments
Derive(kind, args) ==
    IF kind \in PanKinds THEN EncodePan(args)
    ELSE IF kind \in LimitKinds
         THEN EncodeI16s(<<Pulses(args[1]), Pulses(args[2])>>)
         ELSE EncodeI16s(args)

NoEncResult == [kind |-> "none", shape |-> "none", val |-> <<>>]

\* ------------------------------------------------------------------------
\* Constructor arguments the model explores
\* ------------------------------------------------------------------------
\* every signed 16-bit integer and MaxBeyond integers on either side
I16Domain == (I16_MIN - MaxBeyond)..(I16_MAX + MaxBeyond)

\* the integers of main.py, the ends of the range and their neighbours
I16Samples == {I16_MIN - 1, I16_MIN, -1, 0, 1, 2, 3, 10, 20, 80, I16_MAX,
               I16_MAX + 1}

\* degrees: those of main.py, small ones whose pulse count has a fraction
\* below and above one half, and those around the end of the 16-bit range
Degrees == {-945, -944, -55, -2, -1, 0, 1, 2, 55, 944, 945}

\* '0000000000000103' of main.py
PanExample == <<"0", "0", "0", "0", "0", "0", "0", "0",
                "0", "0", "0", "0", "0", "1", "0", "3">>

PanBases == {PanExample,
             <<"0", "1", "2", "3", "4", "5", "6", "7",
               "8", "9", "a", "b", "c", "d", "e", "f">>,
             <<"F", "F", "F", "F", "F", "F", "F", "F",
               "F", "F", "F", "F", "F", "F", "F", "F">>}

\* a base string with one digit replaced
PanInputs ==
    {[b EXCEPT ![i] = h] : b \in PanBases, i \in 1..16, h \in HexDigits}

EncInputs ==
    {[kind |-> "IwcAvgTime", args |-> <<v>>] : v \in I16Domain}
    \cup {[kind |-> k, args |-> <<v>>] :
             k \in (I16Kinds1 \cup SnowKinds) \ {"IwcAvgTime"}, v \in I16Samples}
    \cup {[kind |-> k, args |-> <<v, w>>] :
             k \in I16Kinds2, v \in I16Samples, w \in I16Samples}
    \cup {[kind |-> k, args |-> str] : k \in PanKinds, str \in PanInputs}
    \cup {[kind |-> "TscSwMovementLimit", args |-> <<w, e>>] :
             w \in Degrees, e \in Degrees}

\* the packer and the caller's list play no part here
NoPacker ==
    /\ conf = <<>>
    /\ cls = "TSC"
    /\ pc = "start"
    /\ index = 0
    /\ registers = <<>>
    /\ registers_amount = 0
    /\ cache = NoCache
    /\ result = NoResult
    /\ reads = 0
    /\ inst = 1
    /\ prior = {}
    /\ orig = <<>>

packerVars == <<conf, cls, pc, index, registers, registers_amount, cache,
                result, reads, inst, prior, orig>>

\* an instance right after __init__, which only stores its arguments
EncInit ==
    /\ NoPacker
    /\ th = NoThreads
    /\ op = NoRun
    /\ sens = NoSensors
    /\ \E i \in EncInputs :
          enc = [pc |-> "built", kind |-> i.kind, args |-> i.args,
                 cache |-> NoCache, result |-> NoEncResult,
                 reads |-> 0, derivs |-> 0]

\* a read of modbus_package that finds the cached_property slot filled
EncReadCached ==
    /\ enc.pc = "built"
    /\ enc.reads < MaxReads
    /\ IsCachedProperty(enc.kind)
    /\ enc.cache.set
    /\ enc' = [enc EXCEPT !.result = [kind |-> "value",
                                      shape |-> ShapeOf(enc.kind),
                                      val |-> enc.cache.val],
                          !.reads = @ + 1]
    /\ UNCHANGED <<packerVars, th, op, sens>>

\* a read that runs the body of modbus_package: the first read of a
\* cached_property, a read after a failed one, or any call of the method
EncDerive ==
    /\ enc.pc = "built"
    /\ enc.reads < MaxReads
    /\ ~IsCachedProperty(enc.kind) \/ ~enc.cache.set
    /\ LET d == Derive(enc.kind, enc.args)
       IN  IF d.ok
           THEN enc' = [enc EXCEPT
                           !.result = [kind |-> "value",
                                       shape |-> ShapeOf(enc.kind),
                                       val |-> d.words],
                           !.cache = IF IsCachedProperty(enc.kind)
                                        THEN CacheOnReturn(d.words) ELSE @,
                           !.derivs = @ + 1,
                           !.reads = @ + 1]
           ELSE enc' = [enc EXCEPT
                           !.result = [kind |-> "error", shape |-> "none",
                                       val |-> <<>>],
                           !.reads = @ + 1]
    /\ UNCHANGED <<packerVars, th, op, sens>>

EncNext ==
    \/ EncReadCached
    \/ EncDerive

EncSpec == EncInit /\ [][EncNext]_vars

\* the last finished read returned a value
EncReturned == enc.result.kind = "value"

\* nearest integer to num / den for den > 0 (no input here is a tie)
RoundDiv(num, den) == (2 * num + den) \div (2 * den)

\* the unsigned word with the bit pattern of the signed 16-bit integer v
AsU16(v) == IF v >= 0 THEN v ELSE v + 65536

\* the signed 16-bit integer with the bit pattern of the unsigned word u
AsI16(u) == IF u >= 32768 THEN u - 65536 ELSE u

\* ------------------------------------------------------------------------
\* C11: the RegisterList of an instance is derived at most once: after one
\* successful read of modbus_package no later read runs the derivation
\* again.
\* ------------------------------------------------------------------------
C11_DerivedAtMostOnce == enc.derivs <= 1

\* ------------------------------------------------------------------------
\* C13: the signed 16-bit codec of Backtracking3D, WindAlarmTime, AvgTime,
\* RelaxTime and the Snow* encoders maps every integer v of [-32768, 32767]
\* to v mod 65536, a word of [0, 65535] from which v is recovered (v itself
\* when v >= 0, v + 65536 when v < 0); with an argument outside the range
\* the read fails and yields no word.
\* ------------------------------------------------------------------------
C13_I16Codec ==
    (enc.kind \in I16Kinds1 \cup SnowKinds \cup I16Kinds2 /\ enc.reads > 0) =>
        IF \A i \in 1..Len(enc.args) : enc.args[i] \in -32768..32767
        THEN /\ EncReturned
             /\ Len(enc.result.val) = Len(enc.args)
             /\ \A i \in 1..Len(enc.args) :
                   /\ enc.result.val[i] \in 0..65535
                   /\ enc.result.val[i] = enc.args[i] % 65536
                   /\ enc.result.val[i] = AsU16(enc.args[i])
                   /\ AsI16(enc.result.val[i]) = enc.args[i]
        ELSE /\ enc.result.kind = "error"
             /\ enc.result.val = <<>>
             /\ ~enc.cache.set

C13_Witness ==
    /\ EncReturned
    /\ enc.kind = "IwcAvgTime"
    /\ enc.args = <<-32768>>
    /\ enc.result.val = <<32768>>

\* ------------------------------------------------------------------------
\* C14: for a string of 16 hexadecimal digits TscPanID and IwcPanID return
\* exactly 4 words: with b0..b7 the bytes parsed from the digit pairs and
\* Wj = b(2j)*256 + b(2j+1), the output is [W3, W2, W1, W0], the same for
\* both classes; "0000000000000103" gives [0x0103, 0, 0, 0].
\* ------------------------------------------------------------------------
PanByte(str, j) == 16 * HexVal(str[2 * j + 1]) + HexVal(str[2 * j + 2])

PanWord(str, j) == PanByte(str, 2 * j) * 256 + PanByte(str, 2 * j + 1)

C14_PanIdWords ==
    (enc.kind \in PanKinds /\ enc.reads > 0) =>
        /\ EncReturned
        /\ enc.result.shape = "list"
        /\ enc.result.val = <<PanWord(enc.args, 3), PanWord(enc.args, 2),
                              PanWord(enc.args, 1), PanWord(enc.args, 0)>>
        /\ enc.args = PanExample => enc.result.val = <<259, 0, 0, 0>>

C14_Witness ==
    /\ EncReturned
    /\ enc.kind = "IwcPanID"
    /\ enc.args = PanExample

\* ------------------------------------------------------------------------
\* C15: TscSwMovementLimit returns, west first and east second, the words
\* of round(degrees * 34.70909090909091), the nearest integer pulse count,
\* as signed 16-bit integers; the read fails when a pulse count is outside
\* [-32768, 32767].
\* ------------------------------------------------------------------------
C15_LimitsRounded ==
    (enc.kind \in LimitKinds /\ enc.reads > 0) =>
        LET west == RoundDiv(enc.args[1] * 1909, 55)
            east == RoundDiv(enc.args[2] * 1909, 55)
        IN  IF west \in -32768..32767 /\ east \in -32768..32767
            THEN /\ EncReturned
                 /\ enc.result.val = <<AsU16(west), AsU16(east)>>
            ELSE enc.result.kind = "error"

\* ------------------------------------------------------------------------
\* C16: what an encoder returns is a RegisterList, a sequence of words of
\* [0, 65535], for the single-value encoders IwcSnowActivationTime,
\* IwcSnowDeactivationTime, IwcSnowSampleTime and IwcSnowMaxVariation (a
\* sequence of one word) as for IwcAvgTime, IwcRelaxTime and the others.
\* ------------------------------------------------------------------------
C16_OutputIsRegisterList ==
    EncReturned =>
        /\ enc.result.shape = "list"
        /\ \A k \in 1..Len(enc.result.val) : enc.result.val[k] \in 0..65535

\* ========================================================================
\* The caller changes its list between the construction of a packer and
\* the first read of modbus_package
\* ========================================================================

\* the entry a caller appends
ExtraEntry == <<30064, 1>>

\* the lists one change of list s away: an entry appended, the last entry
\* removed, the register_count of the first entry raised by one
ChangedLists(s) ==
    {Append(s, ExtraEntry)}
    \cup (IF s = <<>> THEN {}
          ELSE {SubSeq(s, 1, Len(s) - 1),
                [s EXCEPT ![1] = <<s[1][1], s[1][2] + 1>>]})

\* list.append / del / item assignment on the list object that was passed
\* to the constructor, once, before the first read
CallerMutate ==
    /\ pc = "constructed"
    /\ reads = 0
    /\ conf = orig
    /\ \E s \in ChangedLists(conf) : conf' = s
    /\ UNCHANGED <<cls, pc, index, registers, registers_amount, cache, result,
                   reads, inst, prior>>
    /\ UNCHANGED others

MutNext ==
    \/ \E c \in Classes : Construct(c)
    \/ CallerMutate
    \/ ReadCached
    \/ DeriveBegin
    \/ DeriveStep
    \/ DeriveReturn

MutSpec == Init /\ [][MutNext]_vars

\* word k (Python index) of the RegisterList of class c for entry list s,
\* as the documentation lays it out: bank A, then bank B
ExpectedWord(c, s, k) ==
    IF k < EntryLimit(c)
    THEN (IF k < Len(s) THEN s[k + 1][1] ELSE 0)
    ELSE IF c = "TSC"
         THEN CountAt(s, 2 * (k - 24)) + 256 * CountAt(s, 2 * (k - 24) + 1)
         ELSE IwcBankB(s, k - 10)

Expected(c, s) ==
    [k \in 1..(IF c = "TSC" THEN 36 ELSE 15) |-> ExpectedWord(c, s, k - 1)]

\* ------------------------------------------------------------------------
\* C12: a packer instance is immutable once constructed: whatever the
\* caller does to the list it passed, a read packs the entries as they were
\* at construction (or fails on their budget), and the entries that are
\* packed still respect the max_entries limit checked at construction.
\* ------------------------------------------------------------------------
C12_PacksEntriesOfConstruction ==
    /\ Exists => Len(conf_definition) <= EntryLimit(cls)
    /\ reads > 0 =>
          IF OverPrefixes(cls, orig) = {}
          THEN Returned /\ result.val = Expected(cls, orig)
          ELSE result.kind = "error"

\* without a change of the list, every returned list is the documented one
PacksTheList == Returned => result.val = Expected(cls, conf)

\* ========================================================================
\* Two threads read modbus_package of the same instance that was never read
\* (functools.cached_property takes no lock: each thread that finds the
\* slot empty runs the function and stores what it returned)
\* ========================================================================

\* length of the generated lists the threads pack
MaxThreadLen == 3

Threads == {1, 2}

\* the thread whose frame holds the buffer that thread t works on: the
\* buffer is a local variable of the call
BufferOwnerShared(t) == 1
BufferOwner(t) == t

ThreadInputs ==
    {<<>>, tsc_polling_packages, iwc_polling_packages, IwcExample, TscExample}
    \cup UNION { { Gen(n, p, k, cb) : p \in Positions(n), k \in Counts,
                                      cb \in CodeBases } : n \in 1..MaxThreadLen }

IdleThread ==
    [pc |-> "idle", index |-> 0, regs |-> <<>>, amount |-> 0, ran |-> FALSE,
     res |-> NoResult]

\* an instance whose constructor returned and that no one has read
ThInit ==
    /\ conf \in ThreadInputs
    /\ cls \in {c \in Classes : ~TooManyPackages(c, Len(conf))}
    /\ pc = "constructed"
    /\ index = 0
    /\ registers = <<>>
    /\ registers_amount = 0
    /\ cache = NoCache
    /\ result = NoResult
    /\ reads = 0
    /\ inst = 1
    /\ prior = {}
    /\ orig = conf
    /\ th = [t \in Threads |-> IdleThread]
    /\ enc = NoEncoder
    /\ op = NoRun
    /\ sens = NoSensors

thFrame == <<conf, cls, pc, index, registers, registers_amount, result, reads,
             inst, prior, orig, enc, op, sens>>

\* cached_property.__get__ looks the attribute up in the instance
ThBegin(t) ==
    /\ th[t].pc = "idle"
    /\ IF cache.set
       THEN th' = [th EXCEPT ![t].pc = "done",
                             ![t].res = [kind |-> "value", val |-> cache.val,
                                         total |-> 0]]
       ELSE th' = [th EXCEPT ![BufferOwner(t)].regs = ZeroRegisters(cls),
                             ![t].pc = "deriving",
                             ![t].index = 0,
                             ![t].amount = 0,
                             ![t].ran = TRUE]
    /\ UNCHANGED <<cache, thFrame>>

\* one iteration of the loop of modbus_package in thread t
ThStep(t) ==
    /\ th[t].pc = "deriving"
    /\ th[t].index < Len(conf_definition)
    /\ LET package == conf_definition[th[t].index + 1]
           amount  == th[t].amount + package[2]
           o       == BufferOwner(t)
       IN  IF BudgetExceeded(cls, amount)
           THEN th' = [th EXCEPT ![t].pc = "done",
                                 ![t].res = [kind |-> "error", val |-> <<>>,
                                             total |-> amount]]
           ELSE th' = [th EXCEPT ![o].regs = LoopBody(cls, th[o].regs,
                                                      th[t].index, package),
                                 ![t].amount = amount,
                                 ![t].index = @ + 1]
    /\ UNCHANGED <<cache, thFrame>>

\* the loop is exhausted and the function returns its buffer to __get__
ThFinish(t) ==
    /\ th[t].pc = "deriving"
    /\ th[t].index = Len(conf_definition)
    /\ th' = [th EXCEPT ![t].pc = "storing"]
    /\ UNCHANGED <<cache, thFrame>>

\* __get__ stores the returned list in the instance and returns it
ThStore(t) ==
    /\ th[t].pc = "storing"
    /\ cache' = CacheOnReturn(th[BufferOwner(t)].regs)
    /\ th' = [th EXCEPT ![t].pc = "done",
                        ![t].res = [kind |-> "value",
                                    val |-> th[BufferOwner(t)].regs,
                                    total |-> 0]]
    /\ UNCHANGED thFrame

ThNext ==
    \E t \in Threads :
        \/ ThBegin(t)
        \/ ThStep(t)
        \/ ThFinish(t)
        \/ ThStore(t)

ThSpec == ThInit /\ [][ThNext]_vars

\* ------------------------------------------------------------------------
\* C19: when two threads read modbus_package of a never-read instance
\* concurrently, every list a thread gets and the list stored on the
\* instance is the complete single-threaded RegisterList of the entries, so
\* both reads agree; no thread gets a partly filled list.
\* ------------------------------------------------------------------------
C19_ConcurrentFirstReads ==
    /\ \A t \in Threads :
          th[t].res.kind = "value" => th[t].res.val = Expected(cls, conf)
    /\ cache.set => cache.val = Expected(cls, conf)
    /\ \A t \in Threads :
          th[t].pc = "done" =>
              th[t].res.kind = (IF OverPrefixes(cls, conf) = {}
                                  THEN "value" ELSE "error")

C19_Witness ==
    /\ conf = tsc_polling_packages
    /\ cls = "TSC"
    /\ \A t \in Threads :
          th[t].pc = "done" /\ th[t].ran /\ th[t].res.kind = "value"

\* ========================================================================
\* The device-operation layer (functions.py:261-876) run by the
\* provisioning script (main.py:71-134) against a transport whose calls
\* return a response, return an error response, or raise
\* ========================================================================
Outcomes == {"ok", "error", "raise"}

\* the address of the extended control register
reg_extended_control == 40007

\* 1 << 15, the value that asks the device to save to non-volatile memory
SAVE_NVM == 32768

\* one call of the transport: fn is the client method, arg the value or the
\* or_mask (0 when the call carries a list of values or reads), out what the
\* transport did
Call(fn, addr, dev, arg, out) ==
    [fn |-> fn, addr |-> addr, dev |-> dev, arg |-> arg, out |-> out]

\* what a function did: the transport calls it issued in order, the value it
\* returned, and whether an exception left it
Done(calls, ret) == [calls |-> calls, ret |-> ret, exc |-> FALSE]

\* the functions main.py calls, in order; enc tells whether the function
\* reads modbus_package of an encoder argument before its first call
Step(fn, kind, dev, call, addr, enc_) ==
    [fn |-> fn, kind |-> kind, dev |-> dev, call |-> call, addr |-> addr,
     enc |-> enc_]

Script ==
    << Step("tsc_sync_clock", "sync", 121, "mask_write_register", 40007, FALSE),
       Step("iwc_sync_clock", "sync", 230, "write_register", 40007, FALSE),
       Step("constructors", "build", 0, "none", 0, FALSE),
       Step("tsc_configure_telemetry", "write", 121, "write_registers", 45000, TRUE),
       Step("tsc_set_coordinates", "write", 121, "write_registers", 41010, TRUE),
       Step("tsc_set_solar_tracking", "write", 121, "write_registers", 41033, TRUE),
       Step("tsc_software_movement_limits", "write", 121, "write_registers", 41037, TRUE),
       Step("tsc_smart_limits", "write", 121, "write_registers", 41111, TRUE),
       Step("tsc_safe_positions", "write", 121, "write_registers", 41044, TRUE),
       Step("tsc_backtracking3d", "write", 121, "write_registers", 40040, TRUE),
       Step("tsc_set_commissioning_state", "write", 121, "mask_write_register", 40000, FALSE),
       Step("tsc_set_modbus_id", "write", 225, "mask_write_register", 41004, FALSE),
       Step("tsc_set_pan_id", "write", 121, "write_registers", 41070, TRUE),
       Step("tsc_save_non_volatile_memory", "save", 121, "write_register", 40007, FALSE),
       Step("tsc_reset_communication", "write", 225, "mask_write_register", 41004, FALSE),
       Step("iwc_configure_telemetry", "telemetry", 230, "write_registers", 41224, TRUE),
       Step("iwc_wind_speed_thresholds", "write", 230, "write_registers", 41011, TRUE),
       Step("iwc_wind_alarm_time", "write", 230, "write_registers", 41017, TRUE),
       Step("iwc_wind_alarms_2_and_3", "write", 230, "write_registers", 41200, TRUE),
       Step("iwc_relax_time", "write", 230, "write_registers", 41214, TRUE),
       Step("iwc_snow_threshold", "write", 230, "write_registers", 41054, TRUE),
       Step("iwc_snow_alarm_activation_time", "write", 230, "write_register", 41217, TRUE),
       Step("iwc_snow_deactivation_time", "write", 230, "write_register", 41218, TRUE),
       Step("iwc_snow_sample_period", "write", 230, "write_register", 41219, TRUE),
       Step("iwc_snow_maximum_variation", "write", 230, "write_register", 41220, TRUE),
       Step("iwc_set_sensors", "rmw", 230, "write_register", 41008, FALSE),
       Step("iwc_save_non_volatile_memory", "save", 230, "write_register", 40007, FALSE),
       Step("iwc_set_pan_id", "write", 230, "write_registers", 41062, TRUE),
       Step("iwc_set_modbus_id", "rmw", 230, "write_register", 41002, FALSE) >>

\* the functions with one transport call: read modbus_package (when there
\* is an encoder argument), issue the call, return whether the response is
\* no error; any exception is caught and gives False
SingleWriteErrorIsSuccess(st, pkgOk, o) ==
    IF st.enc /\ ~pkgOk
    THEN Done(<<>>, FALSE)
    ELSE Done(<<Call(st.call, st.addr, st.dev, 0, o)>>, o # "raise")
SingleWrite(st, pkgOk, o) ==
    IF st.enc /\ ~pkgOk
    THEN Done(<<>>, FALSE)
    ELSE Done(<<Call(st.call, st.addr, st.dev, 0, o)>>, o = "ok")

\* tsc_save_non_volatile_memory / iwc_save_non_volatile_memory
SaveNvm(st, o) ==
    Done(<<Call("write_register", reg_extended_control, st.dev, SAVE_NVM, o)>>,
         o = "ok")

\* iwc_configure_telemetry: the write, then the save if the write returned
\* no error
TelemetryThenSave(st, pkgOk, o1, o2) ==
    LET write == Call(st.call, st.addr, st.dev, 0, o1)
        save  == Call("write_register", reg_extended_control, st.dev,
                      SAVE_NVM, o2)
    IN  IF ~pkgOk THEN Done(<<>>, FALSE)
        ELSE IF o1 # "ok" THEN Done(<<write>>, FALSE)
        ELSE Done(<<write, save>>, o2 = "ok")

\* iwc_set_sensors / iwc_set_modbus_id: read the register, then write it;
\* an error response to the read has no registers[0], which raises
ReadModifyWrite(st, o1, o2) ==
    LET read  == Call("read_holding_registers", st.addr, st.dev, 0, o1)
        write == Call("write_register", st.addr, st.dev, 0, o2)
    IN  IF o1 # "ok" THEN Done(<<read>>, FALSE)
        ELSE Done(<<read, write>>, o2 = "ok")

\* tsc_sync_clock / iwc_sync_clock: enable (1), date array at 40001, commit
\* (3), each only after the one before returned no error; after an error
\* response the control register is reset (0) and False returned; a raise
\* goes straight to the except clause
SyncClockDateAlways(st, o1, o2, o3, o4) ==
    LET enable == Call(st.call, reg_extended_control, st.dev, 1, o1)
        date   == Call("write_registers", 40001, st.dev, 0, o2)
        commit == Call(st.call, reg_extended_control, st.dev, 3, o3)
        reset  == Call(st.call, reg_extended_control, st.dev, 0, o4)
    IN  IF o1 = "raise" THEN Done(<<enable>>, FALSE)
        ELSE IF o2 = "raise" THEN Done(<<enable, date>>, FALSE)
        ELSE IF o2 = "error" \/ o1 = "error"
             THEN Done(<<enable, date, reset>>, FALSE)
        ELSE IF o3 = "raise" THEN Done(<<enable, date, commit>>, FALSE)
        ELSE IF o3 = "error" THEN Done(<<enable, date, commit, reset>>, FALSE)
        ELSE Done(<<enable, date, commit>>, TRUE)
SyncClock(st, o1, o2, o3, o4) ==
    LET enable == Call(st.call, reg_extended_control, st.dev, 1, o1)
        date   == Call("write_registers", 40001, st.dev, 0, o2)
        commit == Call(st.call, reg_extended_control, st.dev, 3, o3)
        reset  == Call(st.call, reg_extended_control, st.dev, 0, o4)
    IN  IF o1 = "raise" THEN Done(<<enable>>, FALSE)
        ELSE IF o1 = "error" THEN Done(<<enable, reset>>, FALSE)
        ELSE IF o2 = "raise" THEN Done(<<enable, date>>, FALSE)
        ELSE IF o2 = "error" THEN Done(<<enable, date, reset>>, FALSE)
        ELSE IF o3 = "raise" THEN Done(<<enable, date, commit>>, FALSE)
        ELSE IF o3 = "error" THEN Done(<<enable, date, commit, reset>>, FALSE)
        ELSE Done(<<enable, date, commit>>, TRUE)

\* the devices to which a call of a function, other than the save to
\* non-volatile memory, did not get through
FailedDevices(calls) ==
    {calls[i].dev : i \in {j \in 1..Len(calls) :
                              /\ calls[j].out # "ok"
                              /\ calls[j].arg # SAVE_NVM}}

\* the polling tables a run passes to TscConfiguration and IwcConfiguration:
\* the tables of main.py, a table over the register budget, and a table with
\* one entry more than the class takes
TscTables == {tsc_polling_packages, Gen(1, 1, 40, 0),
              Gen(MAX_TSC_PACKAGES + 1, 1, 1, 0)}
IwcTables == {iwc_polling_packages, Gen(1, 1, 31, 0),
              Gen(MAX_IWC_PACKAGES + 1, 1, 1, 0)}

\* __init__ raises ValueError("Too many ... packages")
ConstructorRaises(c, table) == TooManyPackages(c, Len(table))

\* registers_amount after the first n entries of the loop
RECURSIVE AmountAfter(_, _)
AmountAfter(table, n) ==
    IF n = 0 THEN 0 ELSE AmountAfter(table, n - 1) + table[n][2]

\* the first read of modbus_package raises ValueError("Too many ...
\* registers") inside the loop
PackageRaises(c, table) ==
    \E n \in 1..Len(table) : BudgetExceeded(c, AmountAfter(table, n))

OpInit ==
    /\ NoPacker
    /\ th = NoThreads
    /\ enc = NoEncoder
    /\ sens = NoSensors
    /\ \E t \in TscTables, i \in IwcTables :
          op = [pc |-> 1, fn |-> "none", kind |-> "none", dev |-> 0,
                calls |-> <<>>, ret |-> FALSE, exc |-> FALSE, pkgOk |-> TRUE,
                failed |-> {}, tsc |-> t, iwc |-> i]

\* the script is at a step of the given kind
At(kind) == op.pc \in 1..Len(Script) /\ Script[op.pc].kind = kind

\* the script calls the function of its current step, which did d, and goes
\* on to the next step whatever the function returned; failed collects the
\* devices a configuration write to which did not get through
Called(d, pkgOk, configures) ==
    op' = [pc |-> op.pc + 1, fn |-> Script[op.pc].fn,
           kind |-> Script[op.pc].kind, dev |-> Script[op.pc].dev,
           calls |-> d.calls, ret |-> d.ret, exc |-> d.exc, pkgOk |-> pkgOk,
           failed |-> IF configures THEN op.failed \cup FailedDevices(d.calls)
                                    ELSE op.failed,
           tsc |-> op.tsc, iwc |-> op.iwc]

OpSync ==
    /\ At("sync")
    /\ \E o1, o2, o3, o4 \in Outcomes :
          Called(SyncClock(Script[op.pc], o1, o2, o3, o4), TRUE, FALSE)
    /\ UNCHANGED <<packerVars, th, enc, sens>>

\* the try block that constructs every configuration value: an exception,
\* of the two packers or of another constructor, prints 'Conf wrong' and
\* skips the else branch with all the writes
OpBuild ==
    /\ At("build")
    /\ \E other \in BOOLEAN :
          LET raises == \/ ConstructorRaises("TSC", op.tsc)
                        \/ ConstructorRaises("IWC", op.iwc)
                        \/ other
          IN
          op' = [op EXCEPT !.pc = IF raises THEN Len(Script) + 1 ELSE @ + 1,
                           !.fn = "constructors", !.kind = "build",
                           !.calls = <<>>, !.ret = FALSE, !.pkgOk = ~raises]
    /\ UNCHANGED <<packerVars, th, enc, sens>>

OpWrite ==
    /\ At("write")
    /\ \E pkgOk \in BOOLEAN, o \in Outcomes :
          /\ ~Script[op.pc].enc => pkgOk
          /\ Script[op.pc].fn = "tsc_configure_telemetry" =>
                 pkgOk = ~PackageRaises("TSC", op.tsc)
          /\ Called(SingleWrite(Script[op.pc], pkgOk, o), pkgOk, TRUE)
    /\ UNCHANGED <<packerVars, th, enc, sens>>

OpTelemetry ==
    /\ At("telemetry")
    /\ \E o1, o2 \in Outcomes :
          LET pkgOk == ~PackageRaises("IWC", op.iwc)
          IN
          Called(TelemetryThenSave(Script[op.pc], pkgOk, o1, o2), pkgOk, TRUE)
    /\ UNCHANGED <<packerVars, th, enc, sens>>

OpReadModifyWrite ==
    /\ At("rmw")
    /\ \E o1, o2 \in Outcomes :
          Called(ReadModifyWrite(Script[op.pc], o1, o2), TRUE, TRUE)
    /\ UNCHANGED <<packerVars, th, enc, sens>>

OpSave ==
    /\ At("save")
    /\ \E o \in Outcomes : Called(SaveNvm(Script[op.pc], o), TRUE, FALSE)
    /\ UNCHANGED <<packerVars, th, enc, sens>>

OpNext ==
    \/ OpSync
    \/ OpBuild
    \/ OpWrite
    \/ OpTelemetry
    \/ OpReadModifyWrite
    \/ OpSave

OpSpec == OpInit /\ [][OpNext]_vars

\* a function of the operation layer has been called and has finished
OpReturned == op.kind \in {"sync", "write", "telemetry", "rmw", "save"}

AllOk(calls) == \A i \in 1..Len(calls) : calls[i].out = "ok"

\* the write that asks a device to save: write_register(40007, 1 << 15)
IsSave(c) == c.fn = "write_register" /\ c.addr = 40007 /\ c.arg = 32768

\* ------------------------------------------------------------------------
\* C17: the save write (write_register, address 40007, value 1 << 15) is
\* issued to a device only after the writes issued to that device before it
\* went through: inside iwc_configure_telemetry only if its write_registers
\* returned no error, and in the provisioning sequence only when no earlier
\* configuration write to that device failed.
\* ------------------------------------------------------------------------
C17_SaveOnlyAfterSuccess ==
    \A i \in 1..Len(op.calls) :
        IsSave(op.calls[i]) =>
            /\ \A j \in 1..(i - 1) : op.calls[j].out = "ok"
            /\ op.calls[i].dev \notin op.failed

\* ------------------------------------------------------------------------
\* C18: every device-operation function returns a boolean and lets no
\* exception out: True exactly when its encoder argument gave its package
\* and every transport call it made returned no error; when reading the
\* package raised it issued no call; and whatever it returned, the
\* provisioning script goes on with its next step.
\* ------------------------------------------------------------------------
C18_BooleanResult ==
    OpReturned =>
        /\ op.ret \in BOOLEAN
        /\ ~op.exc
        /\ op.ret = (op.pkgOk /\ AllOk(op.calls))
        /\ ~op.pkgOk => op.calls = <<>>
        /\ op.pc = Len(Script) + 1 \/ ENABLED OpNext

C18_Witness ==
    /\ op.fn = "tsc_configure_telemetry"
    /\ ~op.pkgOk
    /\ op.ret = FALSE
    /\ op.pc <= Len(Script)

\* ------------------------------------------------------------------------
\* C20: tsc_sync_clock and iwc_sync_clock write in the order enable (40007
\* set to 1), date array at 40001, commit (40007 set to 3): the date only if
\* the enable returned no error, the commit only if the date returned no
\* error, and they return True exactly when all three returned no error.
\* ------------------------------------------------------------------------
ControlWrite(c, v) ==
    /\ c.addr = 40007
    /\ c.arg = v
    /\ c.fn = (IF op.fn = "tsc_sync_clock" THEN "mask_write_register"
                                           ELSE "write_register")

IsDate(c) == c.fn = "write_registers" /\ c.addr = 40001

C20_SyncClockOrder ==
    op.kind = "sync" =>
        LET c == op.calls
        IN  /\ Len(c) >= 1
            /\ ControlWrite(c[1], 1)
            /\ \A i \in 2..Len(c) : ~ControlWrite(c[i], 1)
            /\ \A i \in 1..Len(c) :
                  IsDate(c[i]) => (i = 2 /\ c[1].out = "ok")
            /\ \A i \in 1..Len(c) :
                  ControlWrite(c[i], 3) =>
                      (i = 3 /\ IsDate(c[2]) /\ c[2].out = "ok")
            /\ op.ret = (/\ Len(c) = 3
                         /\ ControlWrite(c[3], 3)
                         /\ AllOk(c))

C20_Witness ==
    /\ op.fn = "iwc_sync_clock"
    /\ op.ret = TRUE
    /\ Len(op.calls) = 3

\* ------------------------------------------------------------------------
\* C21: whenever tsc_sync_clock or iwc_sync_clock returns False after having
\* issued the enable write, the last transport call it issued is the reset
\* of the control register 40007 (or_mask 0 / value 0), both when a write
\* returned an error response and when a write raised.
\* ------------------------------------------------------------------------
C21_FailedSyncEndsWithReset ==
    (op.kind = "sync" /\ op.ret = FALSE /\ Len(op.calls) >= 1) =>
        ControlWrite(op.calls[Len(op.calls)], 0)

\* the functions of the TSC and IWC sequence of the else branch
ConfigKinds == {"write", "telemetry", "rmw", "save"}

\* ------------------------------------------------------------------------
\* C22: if constructing a configuration value raises, none of the
\* configuration write operations of the TSC or IWC sequence is executed;
\* and a polling table that is invalid (over the register budget) prevents
\* every configuration write of that run.
\* ------------------------------------------------------------------------
C22_InvalidConfigurationPreventsWrites ==
    LET tooLong    == \/ Len(op.tsc) > EntryLimit("TSC")
                      \/ Len(op.iwc) > EntryLimit("IWC")
        overBudget == \/ OverPrefixes("TSC", op.tsc) # {}
                      \/ OverPrefixes("IWC", op.iwc) # {}
    IN  /\ (op.kind = "build" /\ ~op.pkgOk) =>
               (op.pc = Len(Script) + 1 /\ ~ENABLED OpNext)
        /\ tooLong => op.kind \notin ConfigKinds
        /\ overBudget => (op.kind \in ConfigKinds => op.calls = <<>>)

\* ========================================================================
\* iwc_set_sensors on a device register: the read of register 41008, the
\* value computed from it and from the five flags, and the write
\* ========================================================================
SENSOR_MASK == 64543
reg_sensors == 41008
IWC_ID == 230

\* a & b on n-bit operands
RECURSIVE BitAnd(_, _, _)
BitAnd(a, b, n) ==
    IF n = 0 THEN 0
    ELSE (a % 2) * (b % 2) + 2 * BitAnd(a \div 2, b \div 2, n - 1)

\* a bool used as an int: True is 1, False is 0
AsInt(flag) == IF flag THEN 1 ELSE 0

\* value = reading.registers[0] & 0xFC1F, then value + (snow << 5) + (rika
\* << 6) + (pira << 7) + (flood << 8) + (temperature << 9)
SensorsValueNoMask(r, f) ==
    r + AsInt(f[1]) * 32 + AsInt(f[2]) * 64 + AsInt(f[3]) * 128
      + AsInt(f[4]) * 256 + AsInt(f[5]) * 512
SensorsValue(r, f) ==
    BitAnd(r, SENSOR_MASK, 16)
      + AsInt(f[1]) * 32 + AsInt(f[2]) * 64 + AsInt(f[3]) * 128
      + AsInt(f[4]) * 256 + AsInt(f[5]) * 512

\* values of the register before the call: every setting of bits 5..9 under
\* four settings each of bits 0..4 and of bits 10..15, every single bit set,
\* and every single bit cleared
SensorRegs ==
    {hi * 1024 + mid * 32 + lo : hi \in {0, 21, 42, 63}, mid \in 0..31,
                                 lo \in {0, 10, 21, 31}}
    \cup {2 ^ k : k \in 0..15} \cup {65535 - 2 ^ k : k \in 0..15}

\* (snow, rika, pira, flood, temperature)
SensorFlags == [1..5 -> BOOLEAN]

SensInit ==
    /\ NoPacker
    /\ th = NoThreads
    /\ enc = NoEncoder
    /\ op = NoRun
    /\ \E r \in SensorRegs, f \in SensorFlags :
          sens = [pc |-> "idle", reg |-> r, before |-> r, flags |-> f,
                  calls |-> <<>>, ret |-> FALSE]

\* the call: the read, whose error response has no registers[0] so that
\* reading it raises; the write of the computed value, which the device
\* stores when it answers without error, does not store when it answers with
\* an error, and may or may not have stored when the call raised
iwc_set_sensors ==
    /\ sens.pc = "idle"
    /\ \E o1, o2 \in Outcomes, stored \in BOOLEAN :
          LET value == SensorsValue(sens.reg, sens.flags)
              read  == Call("read_holding_registers", reg_sensors, IWC_ID, 1, o1)
              write == Call("write_register", reg_sensors, IWC_ID, value, o2)
          IN  IF o1 # "ok"
              THEN sens' = [sens EXCEPT !.pc = "done", !.calls = <<read>>,
                                        !.ret = FALSE]
              ELSE /\ o2 = "ok" => stored
                   /\ o2 = "error" => ~stored
                   /\ sens' = [sens EXCEPT !.pc = "done",
                                           !.calls = <<read, write>>,
                                           !.ret = (o2 = "ok"),
                                           !.reg = IF stored THEN value ELSE @]
    /\ UNCHANGED <<packerVars, th, enc, op>>

SensNext == iwc_set_sensors

SensSpec == SensInit /\ [][SensNext]_vars

\* bit k of v
Bit(v, k) == (v \div 2 ^ k) % 2

\* ------------------------------------------------------------------------
\* C23: iwc_set_sensors reads register 41008 and then writes it; for every
\* value read and every combination of the five flags the value written is
\* in [0, 65535], its bits 5..9 are (snow, rika, pira, flood, temperature)
\* and its bits 0..4 and 10..15 are those of the value read; if the read
\* fails, no write is issued and the register is left unchanged.
\* ------------------------------------------------------------------------
C23_SensorBits ==
    sens.pc = "done" =>
        LET c == sens.calls
        IN  /\ Len(c) >= 1
            /\ c[1].fn = "read_holding_registers" /\ c[1].addr = 41008
            /\ \A i \in 1..Len(c) :
                  c[i].fn = "write_register" =>
                      /\ i = 2
                      /\ c[1].out = "ok"
                      /\ c[i].addr = 41008
                      /\ c[i].arg \in 0..65535
                      /\ \A k \in 5..9 :
                            Bit(c[i].arg, k) = (IF sens.flags[k - 4] THEN 1 ELSE 0)
                      /\ \A k \in (0..4) \cup (10..15) :
                            Bit(c[i].arg, k) = Bit(sens.before, k)
            /\ c[1].out # "ok" => (Len(c) = 1 /\ sens.reg = sens.before)

C23_Witness ==
    /\ sens.pc = "done"
    /\ sens.before = 65535
    /\ sens.flags = <<TRUE, FALSE, FALSE, FALSE, FALSE>>
    /\ Len(sens.calls) = 2
    /\ sens.calls[2].arg = 64575
    /\ sens.reg = 64575
====
